---- MODULE Spec2Model ----
(***************************************************************************)
(* State-machine model of the snake game of src/main.rs: the segment list  *)
(* of Snake, the board/food/timer state of Game, and the two entry points  *)
(* the event loop calls, Game::key_pressed and Game::update.               *)
(*                                                                         *)
(* Time (f64 seconds in the source) is counted in units of MOVING_PERIOD   *)
(* (0.1 s), so MOVING_PERIOD is 1 and RESTART_TIME is 10 here.             *)
(* Option<T> is a sequence of length 0 (None) or 1 (Some).                 *)
(***************************************************************************)
EXTENDS Integers, Sequences, FiniteSets

VARIABLES game,   \* the Game struct driven by the event loop
          last,   \* history: the last call made on game and the path it took
          twin,   \* a second Game, fed the same time in other slices
          steps   \* history: timer-driven snake steps of game and of twin

vars == <<game, last, twin, steps>>

(* ------------------------------ bounds ------------------------------- *)

\* calls are explored on snakes of at most this length
MaxLen == 2
\* update(dt) is explored with dt in 1..MaxDt
MaxDt == 2
\* update calls while Running are explored up to this total_time
MaxRunTime == 2
\* the same two limits for the runs that grow a longer snake
DeepLen == 4
DeepRunTime == 3
\* update calls of the two timer-only runs are explored up to this total_time
MaxFrameTime == 9

(* ------------------------- program constants -------------------------- *)

MOVING_PERIOD == 1
RESTART_TIME == 10
BOARD_WIDTH == 50
BOARD_HEIGHT == 50
\* the food cell of Game::new and restart
FOOD_X == 6
FOOD_Y == 4

\* board handed to Game::new in the runs with key presses: the smallest
\* board that has the initial food cell in its interior
Width == FOOD_X + 2
Height == FOOD_Y + 2

None == <<>>
Some(v) == <<v>>

Directions == {"Up", "Down", "Left", "Right"}
\* the arrow keys and one representative of every other Key
Keys == {"Up", "Down", "Left", "Right", "Space"}
DeltaTimes == 1..MaxDt

(* ------------------------------ Direction ----------------------------- *)

opposite(d) ==
    CASE d = "Up" -> "Down"
      [] d = "Down" -> "Up"
      [] d = "Left" -> "Right"
      [] d = "Right" -> "Left"

(* -------------------------------- Snake ------------------------------- *)

Block(x, y) == [x |-> x, y |-> y]

SnakeNew(x, y) ==
    [direction |-> "Right", body |-> <<Block(x, y)>>, tail |-> None]

head_position(snake) == <<snake.body[1].x, snake.body[1].y>>

\* the match on self.direction of move_forward
Displace(pos, d) ==
    CASE d = "Up" -> <<pos[1], pos[2] - 1>>
      [] d = "Down" -> <<pos[1], pos[2] + 1>>
      [] d = "Left" -> <<pos[1] - 1, pos[2]>>
      [] d = "Right" -> <<pos[1] + 1, pos[2]>>

\* move_forward without the pop_back
move_forward_KeepsTail(snake, dir) ==
    LET direction == IF dir # None THEN dir[1] ELSE snake.direction
        new_pos == Displace(head_position(snake), direction)
        pushed == <<Block(new_pos[1], new_pos[2])>> \o snake.body
    IN [direction |-> direction, body |-> pushed, tail |-> snake.tail]

move_forward(snake, dir) ==
    LET direction == IF dir # None THEN dir[1] ELSE snake.direction
        new_pos == Displace(head_position(snake), direction)
        pushed == <<Block(new_pos[1], new_pos[2])>> \o snake.body
    IN [direction |-> direction,
        body |-> SubSeq(pushed, 1, Len(pushed) - 1),
        tail |-> Some(pushed[Len(pushed)])]

head_direction(snake) == snake.direction

\* next_head with the Up and Down arms swapped
next_head_Flipped(snake, dir) ==
    LET moving_dir == IF dir # None THEN dir[1] ELSE snake.direction
        head == head_position(snake)
    IN CASE moving_dir = "Up" -> <<head[1], head[2] + 1>>
         [] moving_dir = "Down" -> <<head[1], head[2] - 1>>
         [] moving_dir = "Left" -> <<head[1] - 1, head[2]>>
         [] moving_dir = "Right" -> <<head[1] + 1, head[2]>>

next_head(snake, dir) ==
    LET moving_dir == IF dir # None THEN dir[1] ELSE snake.direction
        head == head_position(snake)
    IN CASE moving_dir = "Up" -> <<head[1], head[2] - 1>>
         [] moving_dir = "Down" -> <<head[1], head[2] + 1>>
         [] moving_dir = "Left" -> <<head[1] - 1, head[2]>>
         [] moving_dir = "Right" -> <<head[1] + 1, head[2]>>

\* restore_tail that drops the cached block
restore_tail_Forgets(snake) == snake

\* tail.clone().unwrap(): only called after move_forward, so tail is Some
restore_tail(snake) ==
    [snake EXCEPT !.body = Append(@, snake.tail[1])]

\* the for loop of overlap_tail, at the i-th block with ch blocks counted
RECURSIVE overlap_loop(_, _, _, _, _)
overlap_loop(body, x, y, i, ch) ==
    IF i > Len(body) THEN FALSE
    ELSE IF x = body[i].x /\ y = body[i].y THEN TRUE
    ELSE IF ch + 1 = Len(body) - 1 THEN FALSE
    ELSE overlap_loop(body, x, y, i + 1, ch + 1)

overlap_tail(snake, x, y) == overlap_loop(snake.body, x, y, 1, 0)

(* -------------------------------- Game -------------------------------- *)

GameNew(width, height) ==
    [snake |-> SnakeNew(2, 2),
     food_exists |-> TRUE,
     food_x |-> FOOD_X,
     food_y |-> FOOD_Y,
     width |-> width,
     height |-> height,
     game_over |-> FALSE,
     waiting_time |-> 0,
     total_time |-> 0]

\* restart that leaves total_time running
restart_KeepsTotal(g) ==
    [g EXCEPT !.snake = SnakeNew(2, 2),
              !.food_exists = TRUE,
              !.food_x = FOOD_X,
              !.food_y = FOOD_Y,
              !.game_over = FALSE,
              !.waiting_time = 0]

restart(g) ==
    [g EXCEPT !.snake = SnakeNew(2, 2),
              !.food_exists = TRUE,
              !.food_x = FOOD_X,
              !.food_y = FOOD_Y,
              !.game_over = FALSE,
              !.waiting_time = 0,
              !.total_time = 0]

check_eating(g) ==
    LET head == head_position(g.snake)
    IN IF g.food_exists /\ g.food_x = head[1] /\ g.food_y = head[2]
       THEN [g EXCEPT !.food_exists = FALSE, !.snake = restore_tail(@)]
       ELSE g

\* check_if_snake_alive with >= 0 for > 0
check_if_snake_alive_OnBorder(g, dir) ==
    LET next == next_head(g.snake, dir)
    IN IF overlap_tail(g.snake, next[1], next[2])
       THEN FALSE
       ELSE next[1] >= 0 /\ next[2] >= 0
            /\ next[1] < g.width - 1 /\ next[2] < g.height - 1

check_if_snake_alive(g, dir) ==
    LET next == next_head(g.snake, dir)
    IN IF overlap_tail(g.snake, next[1], next[2])
       THEN FALSE
       ELSE next[1] > 0 /\ next[2] > 0
            /\ next[1] < g.width - 1 /\ next[2] < g.height - 1

\* update_snake moving the snake on the fatal branch as well
update_snake_MovesAnyway(g, dir) ==
    LET moved == check_eating([g EXCEPT !.snake = move_forward(@, dir)])
    IN [moved EXCEPT !.game_over = ~check_if_snake_alive(g, dir),
                     !.waiting_time = 0]

update_snake(g, dir) ==
    LET stepped == IF check_if_snake_alive(g, dir)
                   THEN check_eating([g EXCEPT !.snake = move_forward(@, dir)])
                   ELSE [g EXCEPT !.game_over = TRUE]
    IN [stepped EXCEPT !.waiting_time = 0]

\* the samples of inclusive ranges from 0: the border cells are among them
Samples_WholeBoard(g) == (0..(g.width - 1)) \X (0..(g.height - 1))

\* the cells rng.gen_range(1..width-1) x rng.gen_range(1..height-1) can give
Samples(g) == (1..(g.width - 2)) \X (1..(g.height - 2))

\* the samples on which the while loop of add_food stops
Accepted(g) == {c \in Samples(g) : ~overlap_tail(g.snake, c[1], c[2])}

\* add_food when the sample it ends on is new
add_food(g, new) ==
    [g EXCEPT !.food_x = new[1], !.food_y = new[2], !.food_exists = TRUE]

\* the first two statements of update with = for +=
Timed_Overwrites(g, delta_time) ==
    [g EXCEPT !.waiting_time = delta_time, !.total_time = delta_time]

\* update after its first two statements
Timed(g, delta_time) ==
    [g EXCEPT !.waiting_time = @ + delta_time, !.total_time = @ + delta_time]

\* TRUE iff update(delta_time) reaches the call of add_food
CallsAddFood(g) == ~g.game_over /\ ~g.food_exists

\* update up to and including its `if !self.food_exists` statement
Fed(g, delta_time, new) ==
    IF CallsAddFood(g) THEN add_food(Timed(g, delta_time), new)
    ELSE Timed(g, delta_time)

\* update with its last two if statements in the other order
update_StepsFirst(g, delta_time, new) ==
    LET timed == Timed(g, delta_time)
        moved == IF timed.waiting_time > MOVING_PERIOD
                 THEN update_snake(timed, None)
                 ELSE timed
    IN IF g.game_over
       THEN IF timed.waiting_time > RESTART_TIME THEN restart(timed) ELSE timed
       ELSE IF ~moved.food_exists THEN add_food(moved, new) ELSE moved

\* update with >= RESTART_TIME for > RESTART_TIME
update_RestartsAtThreshold(g, delta_time, new) ==
    LET timed == Timed(g, delta_time)
        fed == Fed(g, delta_time, new)
    IN IF g.game_over
       THEN IF timed.waiting_time >= RESTART_TIME THEN restart(timed) ELSE timed
       ELSE IF fed.waiting_time > MOVING_PERIOD
            THEN update_snake(fed, None)
            ELSE fed

\* update with >= MOVING_PERIOD for > MOVING_PERIOD
update_StepsAtPeriod(g, delta_time, new) ==
    LET timed == Timed(g, delta_time)
        fed == Fed(g, delta_time, new)
    IN IF g.game_over
       THEN IF timed.waiting_time > RESTART_TIME THEN restart(timed) ELSE timed
       ELSE IF fed.waiting_time >= MOVING_PERIOD
            THEN update_snake(fed, None)
            ELSE fed

update(g, delta_time, new) ==
    LET timed == Timed(g, delta_time)
        fed == Fed(g, delta_time, new)
    IN IF g.game_over
       THEN IF timed.waiting_time > RESTART_TIME THEN restart(timed) ELSE timed
       ELSE IF fed.waiting_time > MOVING_PERIOD
            THEN update_snake(fed, None)
            ELSE fed

KeyDir(key) == IF key \in Directions THEN Some(key) ELSE None

\* the return of key_pressed with the heading for its opposite
KeyRejected_SameDirection(g, key) ==
    /\ ~g.game_over
    /\ KeyDir(key) # None
    /\ KeyDir(key)[1] = head_direction(g.snake)

\* TRUE iff key_pressed(key) returns at `if d == ...opposite()`
KeyRejected(g, key) ==
    /\ ~g.game_over
    /\ KeyDir(key) # None
    /\ KeyDir(key)[1] = opposite(head_direction(g.snake))

\* key_pressed without the game_over return
key_pressed_WhileOver(g, key) ==
    IF KeyDir(key) # None /\ KeyDir(key)[1] = opposite(head_direction(g.snake))
    THEN g
    ELSE update_snake(g, KeyDir(key))

\* key_pressed without the opposite-direction return
key_pressed_NoFilter(g, key) ==
    IF g.game_over THEN g ELSE update_snake(g, KeyDir(key))

key_pressed(g, key) ==
    IF g.game_over \/ KeyRejected(g, key) THEN g
    ELSE update_snake(g, KeyDir(key))

(* ------------------------------- history ------------------------------ *)

\* the branch update_snake takes
StepPath(g, dir) == IF check_if_snake_alive(g, dir) THEN "stepped" ELSE "died"

\* the branch key_pressed takes
KeyPath(g, key) ==
    IF g.game_over THEN "ignored"
    ELSE IF KeyRejected(g, key) THEN "rejected"
    ELSE StepPath(g, KeyDir(key))

\* the branch update takes
UpdatePath(g, delta_time, new) ==
    IF g.game_over
    THEN IF Timed(g, delta_time).waiting_time > RESTART_TIME
         THEN "restarted" ELSE "waiting"
    ELSE IF Fed(g, delta_time, new).waiting_time > MOVING_PERIOD
         THEN StepPath(Fed(g, delta_time, new), None)
         ELSE "idle"

\* the count of elapsed stops here; no run comes this far without a restart
ElapsedCap == RESTART_TIME + MaxDt + 1

Capped(t) == IF t > ElapsedCap THEN ElapsedCap ELSE t

\* op: the call; path: its branch; fed: add_food ran in it; dir: the argument
\* of its update_snake call, if any; elapsed: when the call began in GameOver,
\* the time handed to update since the fatal step, this call included; else 0
AfterKey(g, key) ==
    LET path == KeyPath(g, key)
    IN [op |-> "key_pressed",
        path |-> path,
        fed |-> FALSE,
        dir |-> IF path \in {"stepped", "died"} THEN KeyDir(key) ELSE None,
        elapsed |-> IF g.game_over THEN last.elapsed ELSE 0]

AfterUpdate(g, delta_time, new) ==
    LET path == UpdatePath(g, delta_time, new)
    IN [op |-> "update",
        path |-> path,
        fed |-> CallsAddFood(g),
        dir |-> None,
        elapsed |-> IF g.game_over THEN Capped(last.elapsed + delta_time) ELSE 0]

(* ------------------------------ behaviour ----------------------------- *)

Fresh == [op |-> "new", path |-> "new", fed |-> FALSE, dir |-> None, elapsed |-> 0]

\* the sample add_food ends on: any accepted one (the call never returns when
\* no sample is accepted); the food cell stands in when add_food is not called
Choices(g) ==
    IF CallsAddFood(g) THEN Accepted(g) ELSE {<<g.food_x, g.food_y>>}

\* key_pressed(key) on game, within the explored snake length
KeyPressedWithin(maxLen, mayDie) ==
    \E key \in Keys :
        LET after == key_pressed(game, key)
        IN /\ Len(game.snake.body) <= maxLen
           /\ mayDie \/ ~after.game_over
           /\ game' = after
           /\ last' = AfterKey(game, key)
           /\ UNCHANGED <<twin, steps>>

\* update(delta_time) on game, within the explored length and running time
UpdateWithin(maxLen, maxRun, mayDie) ==
    \E delta_time \in DeltaTimes :
        /\ game.game_over \/ game.total_time + delta_time <= maxRun
        /\ \E new \in Choices(game) :
               LET after == update(game, delta_time, new)
               IN /\ Len(game.snake.body) <= maxLen
                  /\ mayDie \/ ~after.game_over
                  /\ game' = after
                  /\ last' = AfterUpdate(game, delta_time, new)
                  /\ UNCHANGED <<twin, steps>>

Init ==
    /\ game = GameNew(Width, Height)
    /\ last = Fresh
    /\ twin = GameNew(Width, Height)
    /\ steps = [game |-> 0, twin |-> 0]

KeyPressed == KeyPressedWithin(MaxLen, TRUE)

Update == UpdateWithin(MaxLen, MaxRunTime, TRUE)

Next == KeyPressed \/ Update

Spec == Init /\ [][Next]_vars

\* the event loop keeps delivering update events: update is called again
\* whenever it can be
SpecLive == Init /\ [][Next]_vars /\ WF_vars(Update)

(* runs that grow a longer snake: only surviving calls are followed *)

DeepKeyPressed == KeyPressedWithin(DeepLen, FALSE)

DeepUpdate == UpdateWithin(DeepLen, DeepRunTime, FALSE)

DeepNext == DeepKeyPressed \/ DeepUpdate

SpecDeep == Init /\ [][DeepNext]_vars

(* two timer-only runs on the board of main(): game and twin get update *)
(* calls only, each with its own slicing of the elapsed time              *)

InitFrame ==
    /\ game = GameNew(BOARD_WIDTH, BOARD_HEIGHT)
    /\ last = Fresh
    /\ twin = GameNew(BOARD_WIDTH, BOARD_HEIGHT)
    /\ steps = [game |-> 0, twin |-> 0]

\* the count of surviving timer-driven snake steps since new or restart
Counted(n, path) ==
    IF path = "restarted" THEN 0
    ELSE IF path = "stepped" THEN n + 1
    ELSE n

FrameUpdate ==
    \E delta_time \in DeltaTimes :
        /\ game.total_time + delta_time <= MaxFrameTime
        /\ \E new \in Choices(game) :
               /\ game' = update(game, delta_time, new)
               /\ last' = AfterUpdate(game, delta_time, new)
               /\ steps' = [steps EXCEPT !.game =
                               Counted(@, UpdatePath(game, delta_time, new))]
               /\ UNCHANGED twin

TwinUpdate ==
    \E delta_time \in DeltaTimes :
        /\ twin.total_time + delta_time <= MaxFrameTime
        /\ \E new \in Choices(twin) :
               /\ twin' = update(twin, delta_time, new)
               /\ steps' = [steps EXCEPT !.twin =
                               Counted(@, UpdatePath(twin, delta_time, new))]
               /\ UNCHANGED <<game, last>>

FrameNext == FrameUpdate \/ TwinUpdate

SpecFrame == InitFrame /\ [][FrameNext]_vars

(* runs of a player who fills the board: every food sample falls next to  *)
(* the head, and once the snake has eaten, every key press eats           *)

\* the segments of a snake whose segments but the last cover the interior
FillLen == (Width - 2) * (Height - 2) + 1

\* the accepted samples one step away from the head
NextToHead(g) ==
    LET head == head_position(g.snake)
    IN {c \in Accepted(g) :
           \/ c[1] = head[1] /\ c[2] - head[2] \in {-1, 1}
           \/ c[2] = head[2] /\ c[1] - head[1] \in {-1, 1}}

\* key_pressed(key) with a surviving step; a snake of two or more segments
\* eats in it
FillKeyPressed ==
    \E key \in Keys :
        LET after == key_pressed(game, key)
        IN /\ KeyPath(game, key) = "stepped"
           /\ Len(game.snake.body) < FillLen
           /\ \/ Len(game.snake.body) = 1
              \/ Len(after.snake.body) = Len(game.snake.body) + 1
           /\ game' = after
           /\ last' = AfterKey(game, key)
           /\ UNCHANGED <<twin, steps>>

\* update(MOVING_PERIOD) right after the eating step: it runs add_food and
\* no snake step
FillUpdate ==
    /\ CallsAddFood(game)
    /\ game.waiting_time = 0
    /\ \E new \in NextToHead(game) :
           /\ game' = update(game, MOVING_PERIOD, new)
           /\ last' = AfterUpdate(game, MOVING_PERIOD, new)
           /\ UNCHANGED <<twin, steps>>

FillNext == FillKeyPressed \/ FillUpdate

SpecFill == Init /\ [][FillNext]_vars

(* ------------------------------ properties ---------------------------- *)

body == game.snake.body

\* TRUE iff the block of cell c is one of body[from..to]
Among(segments, from, to, c) ==
    \E i \in from..to : segments[i] = Block(c[1], c[2])

\* every cell of the board of g, border included
Board(g) == (0..(g.width - 1)) \X (0..(g.height - 1))

\* TRUE iff cell c is on or outside the 1-cell border of the board of g
OnBorder(g, c) ==
    c[1] <= 0 \/ c[2] <= 0 \/ c[1] >= g.width - 1 \/ c[2] >= g.height - 1

OptionalDirections == {None} \cup {Some(d) : d \in Directions}

\* C1: in every reachable state the snake body is non-empty and the head
\* cell differs from the cell of every other segment.
C1_HeadDistinct ==
    /\ Len(body) >= 1
    /\ \A i \in 2..Len(body) : body[i] # body[1]

\* C2: when add_food has completed, the food cell is the cell of no segment
\* of the snake. The result of add_food is the state after an update call
\* that ran add_food and no snake step.
C2_FoodOffSnake ==
    (last.op = "update" /\ last.fed /\ last.path = "idle")
        => ~Among(body, 1, Len(body), <<game.food_x, game.food_y>>)

\* C3: for the snake of every reachable state and every cell of the board,
\* overlap_tail is true exactly when the cell is the cell of a segment
\* other than the last one.
C3_OverlapAllButLast ==
    \A c \in Board(game) :
        overlap_tail(game.snake, c[1], c[2]) = Among(body, 1, Len(body) - 1, c)

\* the food a snake step of the call game -> game' finds: update has run
\* add_food before the step when there was none
FoodAtStep ==
    [exists |-> game.food_exists \/ last'.fed,
     cell |-> IF last'.fed THEN <<game'.food_x, game'.food_y>>
              ELSE <<game.food_x, game.food_y>>]

\* C4: a surviving snake step whose new head is on existing food clears the
\* food flag and makes the snake exactly one segment longer; any other
\* surviving step keeps the length and the food.
C4_EatGrowsByOne ==
    [][last'.path = "stepped" =>
        IF FoodAtStep.exists /\ head_position(game'.snake) = FoodAtStep.cell
        THEN /\ ~game'.food_exists
             /\ Len(game'.snake.body) = Len(game.snake.body) + 1
        ELSE /\ Len(game'.snake.body) = Len(game.snake.body)
             /\ game'.food_exists = FoodAtStep.exists
             /\ <<game'.food_x, game'.food_y>> = FoodAtStep.cell]_vars

\* a step has just eaten: the snake of one segment has become two
C4_Witness ==
    /\ last.path = "stepped"
    /\ ~game.food_exists
    /\ head_position(game.snake) = <<game.food_x, game.food_y>>
    /\ Len(body) = 2

\* C5: game_over is a two-valued mode; it becomes true only in a snake step
\* whose next head is on the border or on a segment other than the last,
\* and becomes false only in the restart of an update call, when the time
\* handed to update since the fatal step exceeds RESTART_TIME; a key press
\* never makes it false.
C5_TwoModes ==
    [][/\ game.game_over \in BOOLEAN
       /\ (~game.game_over /\ game'.game_over) =>
              /\ last'.path = "died"
              /\ LET next == next_head(game.snake, last'.dir)
                 IN \/ OnBorder(game, next)
                    \/ Among(game.snake.body, 1, Len(game.snake.body) - 1, next)
       /\ (game.game_over /\ ~game'.game_over) =>
              /\ last'.op = "update"
              /\ last'.path = "restarted"
              /\ last'.elapsed > RESTART_TIME
       /\ (game.game_over /\ last'.op = "key_pressed") => game'.game_over]_vars

\* the game has gone through a fatal step and the restart after it
C5_Witness ==
    /\ last.op = "update"
    /\ last.elapsed = RESTART_TIME + 1
    /\ ~game.game_over

\* what a key press that reaches update_snake does: the head moves to the
\* cell next in the pressed direction (the heading, for a key that is no
\* arrow), or the game is over with the snake where it was
Forwarded(g, key, after) ==
    LET dir == IF key \in Directions THEN key ELSE g.snake.direction
        next == Displace(head_position(g.snake), dir)
    IN /\ after.waiting_time = 0
       /\ \/ after.game_over /\ after.snake = g.snake
          \/ /\ ~after.game_over
             /\ after.snake.direction = dir
             /\ head_position(after.snake) = next

\* C6 as stated: in any state, a key press leaves the state as it is only
\* if it is the arrow opposite to the heading, and every other key press
\* reaches the snake step at once.
C6_RejectsOnlyOpposite ==
    \A key \in Keys :
        IF key = opposite(game.snake.direction)
        THEN key_pressed(game, key) = game
        ELSE Forwarded(game, key, key_pressed(game, key))

\* C6 amended: that holds while Running; in GameOver every key press
\* leaves the state as it is.
C6_RejectsOnlyOppositeWhileRunning ==
    \A key \in Keys :
        IF game.game_over \/ key = opposite(game.snake.direction)
        THEN key_pressed(game, key) = game
        ELSE Forwarded(game, key, key_pressed(game, key))

\* an arrow other than the heading and its opposite has turned the snake
\* before the move period had passed
C6_Witness ==
    /\ last.op = "key_pressed"
    /\ last.path = "stepped"
    /\ last.dir = Some("Down")
    /\ game.snake.direction = "Down"
    /\ game.total_time = 1

\* C7: with no key presses, two runs from the same state that have been
\* handed the same total time have advanced the snake by the same number
\* of cells, however the time was sliced into update calls.
C7_FrameRateIndependent ==
    game.total_time = twin.total_time => steps.game = steps.twin

\* C8: the state after restart is the state Game::new gives for the same
\* width and height.
C8_RestartIsNew ==
    [][last'.path = "restarted" =>
        /\ game'.snake.body = <<Block(2, 2)>>
        /\ game'.snake.direction = "Right"
        /\ game'.snake.tail = None
        /\ game'.food_exists
        /\ <<game'.food_x, game'.food_y>> = <<6, 4>>
        /\ ~game'.game_over
        /\ game'.waiting_time = 0
        /\ game'.total_time = 0
        /\ game'.width = game.width
        /\ game'.height = game.height
        /\ game' = GameNew(game.width, game.height)]_vars

\* restart has just run
C8_Witness == last.path = "restarted" /\ game.total_time = 0

\* C9: whenever the next head, for any optional direction, is on or outside
\* the border, check_if_snake_alive is false.
C9_BorderIsFatal ==
    \A dir \in OptionalDirections :
        OnBorder(game, next_head(game.snake, dir))
            => ~check_if_snake_alive(game, dir)

\* a snake step has just ended the game at the border
C9_Witness ==
    /\ last.path = "died"
    /\ game.game_over
    /\ OnBorder(game, next_head(game.snake, last.dir))

\* C10: on the 50x50 board, after 4 timer-driven steps and no key press the
\* head is at (6,2), the snake has one segment and the game is not over.
C10_FourTicks ==
    steps.game = 4 =>
        /\ head_position(game.snake) = <<6, 2>>
        /\ Len(body) = 1
        /\ ~game.game_over

\* the fourth timer-driven step has just run
C10_Witness ==
    /\ steps.game = 4
    /\ last.path = "stepped"
    /\ game.width = BOARD_WIDTH /\ game.height = BOARD_HEIGHT

\* the unit vector of a direction, as the claims state it
UnitVector(d) ==
    CASE d = "Up" -> <<0, -1>>
      [] d = "Down" -> <<0, 1>>
      [] d = "Left" -> <<-1, 0>>
      [] d = "Right" -> <<1, 0>>

\* C11: for every optional direction, next_head is the head displaced by
\* the unit vector of the direction (of the heading for None), and it is
\* the head position move_forward produces from the same snake.
C11_NextHeadIsLookahead ==
    \A dir \in OptionalDirections :
        LET d == IF dir # None THEN dir[1] ELSE game.snake.direction
            head == head_position(game.snake)
        IN /\ next_head(game.snake, dir)
                = <<head[1] + UnitVector(d)[1], head[2] + UnitVector(d)[2]>>
           /\ head_position(move_forward(game.snake, dir))
                = next_head(game.snake, dir)

\* a one-segment snake has just stepped Up: the cell it left is one below
C11_Witness ==
    /\ last.path = "stepped"
    /\ last.dir = Some("Up")
    /\ Len(body) = 1
    /\ game.snake.tail = Some(Block(body[1].x, body[1].y + 1))

\* C12: from GameOver, with update called again and again, the game comes
\* to the restart: Running again with the initial snake and food, whatever
\* keys are pressed on the way.
C12_GameOverEnds ==
    game.game_over ~>
        (/\ last.path = "restarted"
         /\ ~game.game_over
         /\ game.snake = SnakeNew(2, 2)
         /\ game.food_exists
         /\ <<game.food_x, game.food_y>> = <<6, 4>>)

\* the game has been through GameOver and has come to the restart
C12_Witness ==
    /\ last.path = "restarted"
    /\ last.elapsed > RESTART_TIME
    /\ ~game.game_over
    /\ game.snake = SnakeNew(2, 2)

Abs(n) == IF n < 0 THEN -n ELSE n

\* the number of cells between the heads of two snakes
Advance(before, after) ==
    Abs(head_position(after)[1] - head_position(before)[1])
        + Abs(head_position(after)[2] - head_position(before)[2])

\* C13: an update call made while Running moves the head by at most one
\* cell, and runs a snake step only when waiting_time plus dt exceeds
\* MOVING_PERIOD, else it only adds dt; every snake step, moving or
\* fatal, key- or timer-driven, leaves waiting_time at 0.
C13_OneStepPerPeriod ==
    [][/\ (last'.op = "update" /\ ~game.game_over) =>
            LET dt == game'.total_time - game.total_time
                moved == Advance(game.snake, game'.snake)
            IN /\ moved <= 1
               /\ (moved = 1 \/ game'.game_over) =>
                      game.waiting_time + dt > MOVING_PERIOD
               /\ (moved = 0 /\ ~game'.game_over) =>
                      game'.waiting_time = game.waiting_time + dt
       /\ ( /\ ~game.game_over
            /\ \/ last'.path \in {"stepped", "died"}
               \/ Advance(game.snake, game'.snake) # 0
               \/ game'.game_over ) => game'.waiting_time = 0]_vars

\* the timer has run its first step, two time units after the start
C13_Witness ==
    /\ last.op = "update"
    /\ last.path = "stepped"
    /\ game.total_time = 2
    /\ game.waiting_time = 0
    /\ head_position(game.snake) = <<3, 2>>

\* the cell the head was on before the last step of the snake, if the snake
\* still tells: the second segment, or the cached tail of a one-segment snake
CameFrom(snake) ==
    IF Len(snake.body) >= 2 THEN Some(snake.body[2])
    ELSE snake.tail

\* C14: no surviving step (the steps that call move_forward) is handed the
\* direction opposite to the heading, none reverses the heading, and none
\* puts the head back on the cell it came from.
C14_NeverReverses ==
    [][(last'.path = "stepped" /\ ~game.game_over) =>
        /\ last'.dir # Some(opposite(game.snake.direction))
        /\ game'.snake.direction # opposite(game.snake.direction)
        /\ Some(game'.snake.body[1]) # CameFrom(game.snake)]_vars

\* an arrow key has just turned a snake of two segments upwards
C14_Witness ==
    /\ last.op = "key_pressed"
    /\ last.path = "stepped"
    /\ last.dir = Some("Up")
    /\ Len(body) = 2
    /\ body[2] = Block(body[1].x, body[1].y + 1)

\* TRUE iff the snake step of the call game -> game' ate: the snake is one
\* segment longer, its head is on the food cell and the food flag is down
Ate ==
    /\ last'.path = "stepped"
    /\ ~game'.food_exists
    /\ Len(game'.snake.body) = Len(game.snake.body) + 1
    /\ head_position(game'.snake) = <<game'.food_x, game'.food_y>>

\* C15 as stated, its last part: food is absent only between the eating
\* step and the next update call, so when an update call has returned and
\* there is no food, the step of that very call ate it.
C15_AbsentOnlyUntilUpdate ==
    (last.op = "update" /\ ~game.food_exists) => last.path = "stepped"

\* C15: an update call made while Running has food on the board before its
\* snake step: it returns with food present, off the head when the step
\* survived, unless that step ate the food. The food flag goes down only in
\* an eating step, and up only in an update call made while Running or in
\* the restart; so food is absent only from the eating step to the next
\* update call made while Running, or to the restart when a key press was
\* fatal first.
C15_FoodBackBeforeStep ==
    [][/\ (last'.op = "update" /\ ~game.game_over) =>
              \/ /\ game'.food_exists
                 /\ last'.path = "stepped" =>
                        head_position(game'.snake) # <<game'.food_x, game'.food_y>>
              \/ Ate
       /\ (game.food_exists /\ ~game'.food_exists) => Ate
       /\ (~game.food_exists /\ game'.food_exists) =>
              /\ last'.op = "update"
              /\ last'.fed \/ last'.path = "restarted"]_vars

\* an update call has found no food, made some and stepped the snake
C15_Witness ==
    /\ last.op = "update"
    /\ last.fed
    /\ last.path = "stepped"
    /\ game.food_exists
    /\ Len(body) = 2

\* TRUE iff every segment of the snake of g is strictly inside the border
Inside(g) ==
    \A i \in 1..Len(g.snake.body) :
        ~OnBorder(g, <<g.snake.body[i].x, g.snake.body[i].y>>)

\* C16: on a board with (2,2) and (6,4) in its interior every segment of the
\* snake is strictly inside the border, before and after every call, and a
\* fatal step sets game_over and leaves the snake (body, heading) as it was.
C16_StaysInside ==
    [][/\ ~OnBorder(game, <<2, 2>>) /\ ~OnBorder(game, <<FOOD_X, FOOD_Y>>)
       /\ Inside(game)
       /\ Inside(game')
       /\ last'.path = "died" =>
              /\ ~game.game_over
              /\ game'.game_over
              /\ game'.snake = game.snake]_vars

\* the snake has just been stopped in front of the right border
C16_Witness ==
    /\ last.path = "died"
    /\ game.game_over
    /\ game.snake.direction = "Right"
    /\ body[1].x = game.width - 2
    /\ Len(body) = 2

\* C17: in GameOver a key press, and an update call that does not restart,
\* leave the snake (body, heading), the food cell, the food flag and the mode
\* as they were; a key press changes nothing at all, and update adds one and
\* the same positive time to waiting_time and total_time.
C17_GameOverFrame ==
    [][(game.game_over /\ last'.path # "restarted") =>
        /\ game'.snake = game.snake
        /\ game'.food_exists = game.food_exists
        /\ <<game'.food_x, game'.food_y>> = <<game.food_x, game.food_y>>
        /\ game'.game_over
        /\ last'.op = "key_pressed" => game' = game
        /\ last'.op = "update" =>
               /\ game'.total_time > game.total_time
               /\ game'.waiting_time - game.waiting_time
                      = game'.total_time - game.total_time]_vars

\* a key has been pressed in GameOver, some time after the fatal step
C17_Witness ==
    /\ game.game_over
    /\ last.op = "key_pressed"
    /\ last.path = "ignored"
    /\ game.waiting_time > MOVING_PERIOD

\* C19: whenever food exists its cell is interior, 1 <= x <= width - 2 and
\* 1 <= y <= height - 2, and the food cell of new and restart is interior on
\* the board of main().
C19_FoodInside ==
    /\ game.food_exists =>
           /\ game.food_x \in 1..(game.width - 2)
           /\ game.food_y \in 1..(game.height - 2)
    /\ FOOD_X \in 1..(BOARD_WIDTH - 2)
    /\ FOOD_Y \in 1..(BOARD_HEIGHT - 2)

\* add_food has just put food in an interior corner, next to the border
C19_Witness ==
    /\ last.fed
    /\ game.food_exists
    /\ game.food_x = game.width - 2
    /\ game.food_y = 1

\* C18: whenever add_food is about to run (update is called while Running
\* with no food), at least one interior cell is accepted by its rejection
\* test, so the resampling loop can end.
C18_SomeCellAccepted == CallsAddFood(game) => Accepted(game) # {}

====
